---- MODULE Spec2Model ----
(***************************************************************************)
(* bevy_time_runner: the TimeRunner cursor (src/src/time_runner.rs), the   *)
(* TimeSpan classification (src/src/time_span.rs) and the two per-frame    *)
(* systems, tick_time_runner_system and time_runner_system.                *)
(*                                                                         *)
(* Time is counted in whole units; an f32 quotient x / period is kept as   *)
(* an exact reduced fraction [num, den], and [1, 0] / [-1, 0] stand for    *)
(* f32::INFINITY / f32::NEG_INFINITY.                                      *)
(***************************************************************************)
EXTENDS Integers, Sequences, FiniteSets, TLC

VARIABLES
    runner,                 \* the TimeRunner component
    time_span,              \* the TimeSpan of each child of the runner
    progress,               \* the TimeSpanProgress of each child, if any
    skip,                   \* the SkipTimeRunner marker and its Added<> tick
    runner_just_completed,  \* Local<Vec<Entity>> of time_runner_system
    ended,                  \* TimeRunnerEnded events sent by the last tick pass
    pc,                     \* what the host runs next
    window,                 \* history: the path of the cursor since the last dispatch
    written,                \* history: children the last dispatch inserted or updated
    last,                   \* history: the last method called on the runner
    hist                    \* history: the ticks made since construction

vars == <<runner, time_span, progress, skip, runner_just_completed, ended, pc,
          window, written, last, hist>>

\* ------------------------------------------------------------------ bounds

\* The runner's length, in time units (TimeRunner::new(length)).
MaxLength == 4
\* Largest magnitude of a delta handed to one tick.
MaxDelta == 9
\* Largest `times` of a Repeat::Times.
MaxTimes == 2
\* Cap on the magnitude of a repeat counter (InfinitelyCounted never stops).
MaxCount == 3
\* Longest recorded history of API calls.
MaxCalls == 4

\* ------------------------------------------------------------- arithmetic

Abs(x) == IF x < 0 THEN -x ELSE x

RECURSIVE Gcd(_, _)
Gcd(a, b) == IF b = 0 THEN a ELSE Gcd(b, a % b)

\* The f32 quotient n / d for d > 0, as a reduced fraction.
Rat(n, d) ==
    LET g == Gcd(Abs(n), d)
    IN  [num |-> n \div g, den |-> d \div g]

Zero == [num |-> 0, den |-> 1]
One == [num |-> 1, den |-> 1]
INFINITY == [num |-> 1, den |-> 0]
NEG_INFINITY == [num |-> -1, den |-> 0]

\* f32::floor of a finite quotient, cast to i32.
Floor(q) == q.num \div q.den
\* q >= k, q < k, q <= k for a finite quotient q and an integer k.
RatGe(q, k) == q.num >= k * q.den
RatLt(q, k) == q.num < k * q.den
RatLe(q, k) == q.num <= k * q.den

\* ------------------------------------------------------------ time_span.rs

Forward == "Forward"
Backward == "Backward"
TimeDirection == {Forward, Backward}

Inclusive(d) == [kind |-> "Inclusive", duration |-> d]
Exclusive(d) == [kind |-> "Exclusive", duration |-> d]

Before == "Before"
Inside == "Inside"
After == "After"
DurationQuotient == {Before, Inside, After}

new_unchecked(min, max) == [min |-> min, max |-> max]

\* The empty-interval test widened to any Exclusive bound.
TimeSpan_new_either_exclusive(min, max) ==
    IF (min.kind = "Exclusive" \/ max.kind = "Exclusive")
          /\ min.duration = max.duration
    THEN [ok |-> FALSE, err |-> "NotTime", span |-> new_unchecked(min, max)]
    ELSE IF min.duration > max.duration
    THEN [ok |-> FALSE, err |-> "MinGreaterThanMax",
          span |-> new_unchecked(min, max)]
    ELSE [ok |-> TRUE, err |-> "", span |-> new_unchecked(min, max)]

\* TimeSpan::new: the span, or the error it returns.
TimeSpan_new(min, max) ==
    IF min.kind = "Exclusive" /\ max.kind = "Exclusive"
          /\ min.duration = max.duration
    THEN [ok |-> FALSE, err |-> "NotTime", span |-> new_unchecked(min, max)]
    ELSE IF min.duration > max.duration
    THEN [ok |-> FALSE, err |-> "MinGreaterThanMax",
          span |-> new_unchecked(min, max)]
    ELSE [ok |-> TRUE, err |-> "", span |-> new_unchecked(min, max)]

\* TryFrom<Range>, <RangeInclusive>, <RangeTo>, <RangeToInclusive>
try_from(range, start, end) ==
    CASE range = "Range" -> TimeSpan_new(Inclusive(start), Exclusive(end))
      [] range = "RangeInclusive" ->
            TimeSpan_new(Inclusive(start), Inclusive(end))
      [] range = "RangeTo" -> TimeSpan_new(Inclusive(0), Exclusive(end))
      [] OTHER -> TimeSpan_new(Inclusive(0), Inclusive(end))

\* The tag of the lower bound ignored: every min is tested inclusively.
after_min_inclusive(span, secs) == secs >= span.min.duration

after_min(span, secs) ==
    IF span.min.kind = "Inclusive"
    THEN secs >= span.min.duration
    ELSE secs > span.min.duration

before_max(span, secs) ==
    IF span.max.kind = "Inclusive"
    THEN secs <= span.max.duration
    ELSE secs < span.max.duration

quotient(span, secs) ==
    CASE after_min(span, secs) /\ before_max(span, secs) -> Inside
      [] after_min(span, secs) /\ ~before_max(span, secs) -> After
      [] ~after_min(span, secs) /\ before_max(span, secs) -> Before
      [] OTHER -> "unreachable"

NoProgress ==
    [some |-> FALSE, now |-> 0, now_percentage |-> Zero,
     previous |-> 0, previous_percentage |-> Zero]

TimeSpanProgress(now_percentage, now, previous_percentage, previous) ==
    [some |-> TRUE, now |-> now, now_percentage |-> now_percentage,
     previous |-> previous, previous_percentage |-> previous_percentage]

\* An update that writes the new now and keeps the previous it found.
progress_update_unshifted(pr, now, now_percentage) ==
    [pr EXCEPT !.now_percentage = now_percentage,
               !.now = now]

\* TimeSpanProgress::update
progress_update(pr, now, now_percentage) ==
    [pr EXCEPT !.previous_percentage = pr.now_percentage,
               !.previous = pr.now,
               !.now_percentage = now_percentage,
               !.now = now]

\* ---------------------------------------------------------- time_runner.rs

WrapAround == "WrapAround"
PingPong == "PingPong"
RepeatStyle == {WrapAround, PingPong}

Infinitely == [kind |-> "Infinitely", times |-> 0, times_repeated |-> 0]
InfinitelyCounted(n) ==
    [kind |-> "InfinitelyCounted", times |-> 0, times_repeated |-> n]
Times(n, done) == [kind |-> "Times", times |-> n, times_repeated |-> done]

\* Repeat::infinitely_counted() and Repeat::times(times)
infinitely_counted == InfinitelyCounted(0)
times(n) == Times(n, 0)

\* Option<(Repeat, RepeatStyle)>
NoRepeat == [some |-> FALSE, repeat |-> Infinitely, style |-> WrapAround]
SomeRepeat(rep, style) == [some |-> TRUE, repeat |-> rep, style |-> style]

\* Off by one: the last repeat is not seen as the last.
exhausted_strict(rep) ==
    IF rep.kind = "Times" THEN rep.times_repeated > rep.times ELSE FALSE

exhausted(rep) ==
    IF rep.kind = "Times" THEN rep.times_repeated >= rep.times ELSE FALSE

\* The repeats of Times granted and never counted.
advance_counter_by_uncounted(rep, by) ==
    CASE rep.kind = "Infinitely" -> [repeat |-> rep, advances |-> by]
      [] rep.kind = "InfinitelyCounted" ->
            [repeat |-> [rep EXCEPT !.times_repeated = @ + by],
             advances |-> by]
      [] OTHER ->
            IF rep.times - rep.times_repeated = 0
            THEN [repeat |-> rep, advances |-> 0]
            ELSE [repeat |-> rep, advances |-> by]

\* A count that the Times repeat cannot take whole is not taken at all.
advance_counter_by_whole(rep, by) ==
    CASE rep.kind = "Infinitely" -> [repeat |-> rep, advances |-> by]
      [] rep.kind = "InfinitelyCounted" ->
            [repeat |-> [rep EXCEPT !.times_repeated = @ + by],
             advances |-> by]
      [] OTHER ->
            IF rep.times - rep.times_repeated < by
            THEN [repeat |-> rep, advances |-> 0]
            ELSE [repeat |-> [rep EXCEPT !.times_repeated = @ + by],
                  advances |-> by]

\* The limit of Times ignored: every period is counted.
advance_counter_by_unlimited(rep, by) ==
    IF rep.kind = "Infinitely"
    THEN [repeat |-> rep, advances |-> by]
    ELSE [repeat |-> [rep EXCEPT !.times_repeated = @ + by], advances |-> by]

\* Repeat::advance_counter_by: the repeat afterwards and the count returned.
advance_counter_by(rep, by) ==
    CASE rep.kind = "Infinitely" -> [repeat |-> rep, advances |-> by]
      [] rep.kind = "InfinitelyCounted" ->
            [repeat |-> [rep EXCEPT !.times_repeated = @ + by],
             advances |-> by]
      [] OTHER ->
            LET times_left == rep.times - rep.times_repeated
                times_to_advance == IF times_left > by THEN by ELSE times_left
            IN  IF times_left = 0
                THEN [repeat |-> rep, advances |-> 0]
                ELSE [repeat |-> [rep EXCEPT !.times_repeated =
                                                 @ + times_to_advance],
                      advances |-> times_to_advance]

\* The remainder of `%` in place of rem_euclid: negative below zero.
saw_wave_truncated(x, period) ==
    IF x >= 0 THEN x % period ELSE -((-x) % period)

saw_wave(x, period) == x % period

triangle_wave(x, period) == Abs(((x + period) % (period * 2)) - period)

triangle_wave_direction(repeats) ==
    IF repeats % 2 = 0 THEN Forward ELSE Backward

backward_triangle_wave_direction(repeats) ==
    IF repeats % 2 = 0 THEN Backward ELSE Forward

period_percentage(x, period) == Rat(x, period)

\* TimeRunnerElasped::default()
ElaspedDefault ==
    [now |-> 0, now_period |-> Zero, previous |-> 0, previous_period |-> Zero]

\* TimeRunnerElasped::update
elasped_update(e, now, now_period) ==
    [now |-> now, now_period |-> now_period,
     previous |-> e.now, previous_period |-> e.now_period]

\* TimeRunner::new(length)
TimeRunner_new(length) ==
    [paused |-> FALSE, elasped |-> ElaspedDefault, length |-> length,
     direction |-> Forward, time_scale |-> 1, repeat |-> NoRepeat]

set_length(r, duration) == [r EXCEPT !.length = duration]
set_paused(r, paused) == [r EXCEPT !.paused = paused]
set_time_scale(r, time_scale) == [r EXCEPT !.time_scale = time_scale]
set_direction(r, direction) == [r EXCEPT !.direction = direction]
set_repeat(r, repeat) == [r EXCEPT !.repeat = repeat]

set_tick(r, secs) ==
    [r EXCEPT !.elasped.now = secs,
              !.elasped.now_period = period_percentage(secs, r.length)]

collaspe_elasped(r) ==
    [r EXCEPT !.elasped.previous = r.elasped.now,
              !.elasped.previous_period = r.elasped.now_period]

at_edge(r) ==
    IF r.direction = Forward
    THEN RatGe(r.elasped.now_period, 1)
           /\ r.elasped.now_period = r.elasped.previous_period
    ELSE RatLe(r.elasped.now_period, 0)
           /\ r.elasped.now = r.elasped.previous

is_completed(r) ==
    IF r.repeat.some THEN exhausted(r.repeat.repeat) /\ at_edge(r)
    ELSE at_edge(r)

\* The cursor clamped, the period coordinate left as computed.
clamp_elasped_period_kept(r, new_elasped, p) ==
    IF new_elasped > r.length
    THEN [r EXCEPT !.elasped = elasped_update(r.elasped, r.length, p)]
    ELSE IF new_elasped < 0
    THEN [r EXCEPT !.elasped = elasped_update(r.elasped, 0, p)]
    ELSE [r EXCEPT !.elasped = elasped_update(r.elasped, new_elasped, p)]

\* The clamp forgotten: the candidate cursor is written as it is.
clamp_elasped_unclamped(r, new_elasped, p) ==
    [r EXCEPT !.elasped = elasped_update(r.elasped, new_elasped, p)]

\* raw_tick, lines 210-217: no repeat was accounted, the cursor is clamped.
clamp_elasped(r, new_elasped, p) ==
    IF new_elasped > r.length
    THEN [r EXCEPT !.elasped = elasped_update(r.elasped, r.length, One)]
    ELSE IF new_elasped < 0
    THEN [r EXCEPT !.elasped = elasped_update(r.elasped, 0, Zero)]
    ELSE [r EXCEPT !.elasped = elasped_update(r.elasped, new_elasped, p)]

\* raw_tick, lines 220-232: the repeat style is applied.
apply_repeat_style(r, repeat_style, new_elasped, p, repeat_count) ==
    LET wrapped == IF repeat_style = WrapAround
                   THEN saw_wave(new_elasped, r.length)
                   ELSE triangle_wave(new_elasped, r.length)
        new_direction ==
            IF repeat_style = PingPong
            THEN IF r.direction = Forward
                 THEN triangle_wave_direction(repeat_count)
                 ELSE backward_triangle_wave_direction(repeat_count)
            ELSE r.direction
    IN  [r EXCEPT !.elasped = elasped_update(r.elasped, wrapped, p),
                  !.direction = new_direction]

\* raw_tick, lines 188-191: the candidate cursor.
tick_target(r, secs) ==
    IF r.direction = Forward
    THEN r.elasped.now + secs
    ELSE r.elasped.now - secs

\* One repeat asked of the policy however many boundaries the tick crossed.
account_repeat_one_a_tick(r, repeat_count) ==
    IF r.repeat.some /\ repeat_count # 0
    THEN advance_counter_by(r.repeat.repeat,
             IF (r.direction = Forward) = (repeat_count > 0) THEN 1 ELSE -1)
    ELSE [repeat |-> r.repeat.repeat, advances |-> 0]

\* raw_tick, lines 197-209: the count handed to the repeat, and its answer.
account_repeat(r, repeat_count) ==
    IF r.repeat.some /\ repeat_count # 0
    THEN advance_counter_by(r.repeat.repeat,
             IF r.direction = Forward THEN repeat_count ELSE -repeat_count)
    ELSE [repeat |-> r.repeat.repeat, advances |-> 0]

raw_tick(r, secs) ==
    LET new_elasped == tick_target(r, secs)
        p == period_percentage(new_elasped, r.length)
        repeat_count == Floor(p)
        adv == account_repeat(r, repeat_count)
        r1 == [r EXCEPT !.repeat.repeat = adv.repeat]
    IN  IF adv.advances # 0
        THEN apply_repeat_style(r1, r.repeat.style, new_elasped, p,
                                repeat_count)
        ELSE clamp_elasped(r1, new_elasped, p)

\* TimeRunner::tick
tick(r, secs) ==
    IF r.paused \/ is_completed(r) THEN r ELSE raw_tick(r, secs * r.time_scale)

\* ------------------------------------------------- the TimeRunner's methods

\* The one runner entity of the world.
RunnerEntity == 1

Deltas == (-MaxDelta) .. MaxDelta
Lengths == (MaxLength - 1) .. MaxLength
Repeats ==
    {Infinitely, infinitely_counted} \cup {times(n) : n \in 0 .. MaxTimes}
RepeatOptions ==
    {NoRepeat} \cup {SomeRepeat(rep, style) : rep \in Repeats, style \in RepeatStyle}

\* The repeat counters stay within the cap.
CounterInBound(r) == Abs(r.repeat.repeat.times_repeated) <= MaxCount

\* ticked: the last tick pass ticked the runner; open: a tick was made whose
\* path (from, target, periods, wrapped, style) follows; read: the last
\* dispatch took the runner through its main pass and read (previous, now).
NoWindow == [ticked |-> FALSE, open |-> FALSE, from |-> 0, target |-> 0,
             periods |-> 0, wrapped |-> FALSE, style |-> WrapAround,
             read |-> FALSE, previous |-> 0, now |-> 0]
NoCall == [op |-> "new", secs |-> 0]
\* n: the ticks made; period_run and wave_run: what all of them were (see
\* Record), as counted_run; sum: the sum of their deltas while wave_run or
\* counted_run holds; collapsed: a
\* dispatch read and collapsed the window, and seen is the now it left (kept
\* by SpecWindow only); snapped: the children whose now the last main pass
\* published as the Min or the Max of their span.
NoHist == [n |-> 0, period_run |-> TRUE, wave_run |-> TRUE, sum |-> 0,
           collapsed |-> FALSE, seen |-> 0, snapped |-> {},
           counted_run |-> TRUE]

Record(op, secs) ==
    /\ last' = [op |-> op, secs |-> secs]
    /\ hist' = IF op \in {"tick", "raw_tick"}
               THEN LET \* only raw_ticks with deltas >= 0, the first of
                        \* them made by a Forward (Infinitely, PingPong)
                        \* runner from now = 0
                        wave_run ==
                            /\ hist.wave_run
                            /\ op = "raw_tick" /\ secs >= 0
                            /\ hist.n = 0 =>
                                  /\ runner.elasped.now = 0
                                  /\ runner.direction = Forward
                                  /\ runner.repeat =
                                         SomeRepeat(Infinitely, PingPong)
                        \* the same of a Forward (InfinitelyCounted,
                        \* WrapAround) runner with no repeat counted yet
                        counted_run ==
                            /\ hist.counted_run
                            /\ op = "raw_tick" /\ secs >= 0
                            /\ hist.n = 0 =>
                                  /\ runner.elasped.now = 0
                                  /\ runner.direction = Forward
                                  /\ runner.repeat =
                                         SomeRepeat(infinitely_counted,
                                                    WrapAround)
                    IN
                    [n |-> hist.n + 1,
                     \* only ticks of one period, the first of them made
                     \* by a Forward runner from now = 0
                     period_run |->
                         /\ hist.period_run
                         /\ secs = runner.length
                         /\ hist.n = 0 =>
                               /\ runner.elasped.now = 0
                               /\ runner.direction = Forward,
                     wave_run |-> wave_run,
                     sum |-> IF wave_run \/ counted_run
                             THEN hist.sum + secs
                             ELSE 0,
                     counted_run |-> counted_run,
                     collapsed |-> hist.collapsed,
                     seen |-> hist.seen,
                     snapped |-> hist.snapped]
               ELSE IF op = "collapse"
               THEN [hist EXCEPT !.period_run = FALSE]
               ELSE NoHist

WorldUnchanged ==
    UNCHANGED <<time_span, progress, skip, runner_just_completed, ended, pc,
                window, written>>

InitApi ==
    /\ runner = TimeRunner_new(MaxLength)
    /\ time_span = <<>>
    /\ progress = <<>>
    /\ skip = "none"
    /\ runner_just_completed = {}
    /\ ended = <<>>
    /\ pc = "api"
    /\ window = NoWindow
    /\ written = {}
    /\ last = NoCall
    /\ hist = NoHist

\* Builder calls, made before the first tick.
ApiSetLength ==
    /\ hist.n = 0 /\ last.op \in {"new", "set"}
    /\ \E duration \in Lengths : runner' = set_length(runner, duration)
    /\ Record("set", 0)
    /\ WorldUnchanged

ApiSetDirection ==
    /\ hist.n = 0 /\ last.op \in {"new", "set"}
    /\ \E direction \in TimeDirection :
          runner' = set_direction(runner, direction)
    /\ Record("set", 0)
    /\ WorldUnchanged

ApiSetRepeat ==
    /\ hist.n = 0 /\ last.op \in {"new", "set"}
    /\ \E repeat \in RepeatOptions : runner' = set_repeat(runner, repeat)
    /\ Record("set", 0)
    /\ WorldUnchanged

ApiSetTick ==
    /\ hist.n = 0 /\ last.op \in {"new", "set"}
    /\ \E secs \in (-1) .. (runner.length + 1) :
          runner' = set_tick(runner, secs)
    /\ Record("set", 0)
    /\ WorldUnchanged

ApiRawTick ==
    /\ hist.n < MaxCalls
    /\ \E secs \in Deltas :
          /\ runner' = raw_tick(runner, secs)
          /\ CounterInBound(runner')
          /\ Record("raw_tick", secs)
    /\ WorldUnchanged

ApiTick ==
    /\ hist.n < MaxCalls
    /\ \E secs \in Deltas :
          /\ runner' = tick(runner, secs)
          /\ CounterInBound(runner')
          /\ Record("tick", secs)
    /\ WorldUnchanged

ApiCollapse ==
    /\ hist.n > 0
    /\ runner' = collaspe_elasped(runner)
    /\ Record("collapse", 0)
    /\ WorldUnchanged

NextApi ==
    \/ ApiSetLength
    \/ ApiSetDirection
    \/ ApiSetRepeat
    \/ ApiSetTick
    \/ ApiRawTick
    \/ ApiTick
    \/ ApiCollapse

SpecApi == InitApi /\ [][NextApi]_vars

\* ------------------------------------------------------ the two systems

\* Largest delta_seconds of a frame.
MaxFrameDelta == 5

FrameDeltas == 0 .. MaxFrameDelta
TimeScales == {1, -1}

\* The children of the runner: the spans of the crate's example, [0,1) [1,3)
\* [3,4], or a closed zero-length span, a left-open and a half-open one.
Worlds ==
    { << TimeSpan_new(Inclusive(0), Exclusive(1)).span,
         TimeSpan_new(Inclusive(1), Exclusive(3)).span,
         TimeSpan_new(Inclusive(3), Inclusive(4)).span >>,
      << TimeSpan_new(Inclusive(2), Inclusive(2)).span,
         TimeSpan_new(Exclusive(1), Inclusive(3)).span,
         TimeSpan_new(Inclusive(0), Exclusive(2)).span >> }

Children == DOMAIN time_span

\* TimeRunnerEnded
TimeRunnerEnded(r) ==
    [time_runner |-> RunnerEntity,
     current_direction |-> r.direction,
     with_repeat |-> [some |-> r.repeat.some, repeat |-> r.repeat.repeat]]

\* TimeRunnerEnded::is_completed
ended_is_completed(ev) ==
    IF ev.with_repeat.some THEN exhausted(ev.with_repeat.repeat) ELSE TRUE

\* The rule of the runners without PingPong applied to every runner.
send_event_one_rule(r) ==
    LET n == r.elasped.now_period
    IN  \/ r.direction = Backward /\ RatLt(n, 0)
        \/ r.direction = Forward /\ RatGe(n, 1)

\* tick_time_runner_system, lines 429-439, on the runner just ticked.
send_event(r) ==
    LET n == r.elasped.now_period
    IN  IF r.repeat.some /\ r.repeat.style = PingPong
        THEN \/ r.direction = Forward /\ RatLt(n, 0)
             \/ r.direction = Backward /\ RatGe(n, 1)
        ELSE \/ r.direction = Backward /\ RatLt(n, 0)
             \/ r.direction = Forward /\ RatGe(n, 1)

\* The pause forgotten: only a completed runner is left alone.
tick_skipped_only_completed(r) == is_completed(r)

\* The completion test forgotten: only a paused runner is left alone.
tick_skipped_only_paused(r) == r.paused

\* tick_time_runner_system, line 423: the runner is not ticked.
tick_skipped(r) == r.paused \/ is_completed(r)

\* Option<UseTime> of span_in_range
UseNone == "None"
Current == "Current"
Min == "Min"
Max == "Max"
\* Option<RepeatStyle>::None
NotRepeated == "None"

\* The table of a runner that did not repeat used whatever the runner did.
span_in_range_flat(direction, previous_quotient, now_quotient, repeated) ==
    LET t == <<direction, previous_quotient, now_quotient>>
    IN  IF \/ (previous_quotient = Inside /\ now_quotient = Inside)
           \/ t \in { <<Forward, Before, Inside>>,
                      <<Forward, Inside, After>>,
                      <<Forward, Before, After>> }
           \/ t \in { <<Backward, After, Inside>>,
                      <<Backward, Inside, Before>>,
                      <<Backward, After, Before>> }
        THEN Current ELSE UseNone

\* span_in_range
span_in_range(direction, previous_quotient, now_quotient, repeated) ==
    LET t == <<direction, previous_quotient, now_quotient>>
    IN  CASE repeated = NotRepeated ->
               IF \/ (previous_quotient = Inside /\ now_quotient = Inside)
                  \/ t \in { <<Forward, Before, Inside>>,
                             <<Forward, Inside, After>>,
                             <<Forward, Before, After>> }
                  \/ t \in { <<Backward, After, Inside>>,
                             <<Backward, Inside, Before>>,
                             <<Backward, After, Before>> }
               THEN Current ELSE UseNone
          [] repeated = WrapAround ->
               IF t \in { <<Forward, Before, Before>>,
                          <<Forward, Inside, Before>> }
               THEN Max
               ELSE IF t \in { <<Forward, Before, Inside>>,
                               <<Forward, Before, After>>,
                               <<Forward, Inside, Inside>>,
                               <<Forward, Inside, After>>,
                               <<Forward, After, Inside>>,
                               <<Forward, After, After>> }
               THEN Current
               ELSE IF t \in { <<Backward, After, After>>,
                               <<Backward, Inside, After>> }
               THEN Min
               ELSE IF t \in { <<Backward, Before, Before>>,
                               <<Backward, Before, Inside>>,
                               <<Backward, Inside, Before>>,
                               <<Backward, Inside, Inside>>,
                               <<Backward, After, Before>>,
                               <<Backward, After, Inside>> }
               THEN Current ELSE UseNone
          [] OTHER ->
               IF t \in { <<Backward, Before, Before>>,
                          <<Backward, Before, Inside>>,
                          <<Backward, Before, After>>,
                          <<Backward, Inside, Before>>,
                          <<Backward, Inside, Inside>>,
                          <<Backward, Inside, After>>,
                          <<Backward, After, Before>>,
                          <<Backward, After, Inside>> }
               THEN Current
               ELSE IF t \in { <<Forward, Before, Inside>>,
                               <<Forward, Before, After>>,
                               <<Forward, Inside, Before>>,
                               <<Forward, Inside, Inside>>,
                               <<Forward, Inside, After>>,
                               <<Forward, After, Before>>,
                               <<Forward, After, Inside>>,
                               <<Forward, After, After>> }
               THEN Current ELSE UseNone

\* time_runner_system, lines 500-505
repeated_of(r) ==
    IF Floor(r.elasped.now_period) # 0 /\ ~is_completed(r)
    THEN IF r.repeat.some THEN r.repeat.style ELSE NotRepeated
    ELSE NotRepeated

\* The direction of the runner taken, whichever way the cursor moved.
local_direction_of_runner(r, repeated) == r.direction

\* time_runner_system, lines 517-525
local_direction(r, repeated) ==
    IF repeated = NotRepeated
    THEN IF r.elasped.previous < r.elasped.now THEN Forward
         ELSE IF r.elasped.previous = r.elasped.now THEN r.direction
         ELSE Backward
    ELSE r.direction

\* time_runner_system, lines 543-566
percentage(value, span_length, runner_direction) ==
    IF span_length > 0
    THEN Rat(value, span_length)
    ELSE IF value > 0 THEN INFINITY
    ELSE IF value = 0
    THEN IF runner_direction = Forward THEN INFINITY ELSE NEG_INFINITY
    ELSE NEG_INFINITY

\* time_runner_system, lines 536-540
use_time_now(use_time, r, span) ==
    CASE use_time = Current -> r.elasped.now - span.min.duration
      [] use_time = Min -> 0
      [] OTHER -> span.max.duration - span.min.duration

\* time_runner_system, lines 513-528: the decision for one span.
span_use_time(r, span) ==
    LET repeated == repeated_of(r)
    IN  span_in_range(local_direction(r, repeated),
                      quotient(span, r.elasped.previous),
                      quotient(span, r.elasped.now),
                      repeated)

\* The tie at exactly 0 broken by the direction the cursor moved in.
span_progress_local_tie(r, span, time_span_progress) ==
    LET use_time == span_use_time(r, span)
        span_length == span.max.duration - span.min.duration
        new_now == use_time_now(use_time, r, span)
        new_previous == r.elasped.previous - span.min.duration
        direction == local_direction(r, repeated_of(r))
        new_now_percentage == percentage(new_now, span_length, direction)
        new_previous_percentage ==
            percentage(new_previous, span_length, direction)
    IN  IF use_time = UseNone
        THEN NoProgress
        ELSE IF time_span_progress.some
        THEN progress_update(time_span_progress, new_now, new_now_percentage)
        ELSE TimeSpanProgress(new_now_percentage, new_now,
                              new_previous_percentage, new_previous)

\* time_runner_system, lines 530-583: the progress of one span afterwards.
span_progress(r, span, time_span_progress) ==
    LET use_time == span_use_time(r, span)
        span_length == span.max.duration - span.min.duration
        new_now == use_time_now(use_time, r, span)
        new_previous == r.elasped.previous - span.min.duration
        new_now_percentage == percentage(new_now, span_length, r.direction)
        new_previous_percentage ==
            percentage(new_previous, span_length, r.direction)
    IN  IF use_time = UseNone
        THEN NoProgress
        ELSE IF time_span_progress.some
        THEN progress_update(time_span_progress, new_now, new_now_percentage)
        ELSE TimeSpanProgress(new_now_percentage, new_now,
                              new_previous_percentage, new_previous)

Init ==
    /\ runner = TimeRunner_new(MaxLength)
    /\ time_span \in Worlds
    /\ progress = [c \in DOMAIN time_span |-> NoProgress]
    /\ skip = "none"
    /\ runner_just_completed = {}
    /\ ended = <<>>
    /\ pc = "setup"
    /\ window = NoWindow
    /\ written = {}
    /\ last = NoCall
    /\ hist = NoHist

HostUnchanged ==
    UNCHANGED <<time_span, progress, runner_just_completed, ended, window,
                written, last, hist>>

\* The runner is configured before the first frame.
SetDirection ==
    /\ pc = "setup"
    /\ \E direction \in TimeDirection :
          runner' = set_direction(runner, direction)
    /\ UNCHANGED <<skip, pc>>
    /\ HostUnchanged

SetRepeat ==
    /\ pc = "setup"
    /\ \E repeat \in RepeatOptions : runner' = set_repeat(runner, repeat)
    /\ UNCHANGED <<skip, pc>>
    /\ HostUnchanged

SetTimeScale ==
    /\ pc = "setup"
    /\ \E time_scale \in TimeScales :
          runner' = set_time_scale(runner, time_scale)
    /\ UNCHANGED <<skip, pc>>
    /\ HostUnchanged

SetTick ==
    /\ pc = "setup"
    /\ \E secs \in 0 .. runner.length : runner' = set_tick(runner, secs)
    /\ UNCHANGED <<skip, pc>>
    /\ HostUnchanged

\* Between two frames the host pauses or resumes the runner,
SetPaused ==
    /\ pc \in {"setup", "tick"}
    /\ \E paused \in BOOLEAN : runner' = set_paused(runner, paused)
    /\ UNCHANGED <<skip, pc>>
    /\ HostUnchanged

\* attaches the SkipTimeRunner marker,
InsertSkip ==
    /\ pc \in {"setup", "tick"}
    /\ skip = "none"
    /\ skip' = "added"
    /\ UNCHANGED <<runner, pc>>
    /\ HostUnchanged

\* or removes it.
RemoveSkip ==
    /\ pc \in {"setup", "tick"}
    /\ skip # "none"
    /\ skip' = "none"
    /\ UNCHANGED <<runner, pc>>
    /\ HostUnchanged

\* tick_time_runner_system, in a frame whose time.delta_seconds() is one of
\* deltas
TickPassOf(deltas) ==
    /\ pc \in {"setup", "tick"}
    /\ pc' = "dispatch"
    /\ \E delta \in deltas :
          IF tick_skipped(runner)
          THEN /\ runner' = runner
               /\ ended' = <<>>
               /\ window' = IF window.read THEN NoWindow
                             ELSE [window EXCEPT !.ticked = FALSE]
          ELSE LET secs == delta * runner.time_scale
                   target == tick_target(runner, secs)
                   periods == Floor(period_percentage(target, runner.length))
               IN  /\ runner' = raw_tick(runner, secs)
                   /\ CounterInBound(runner')
                   /\ ended' = IF send_event(runner')
                               THEN <<TimeRunnerEnded(runner')>>
                               ELSE <<>>
                   /\ window' =
                         [ticked |-> TRUE, open |-> TRUE,
                          from |-> runner.elasped.now,
                          target |-> target, periods |-> periods,
                          wrapped |->
                              account_repeat(runner, periods).advances # 0,
                          style |-> runner.repeat.style,
                          read |-> FALSE, previous |-> 0, now |-> 0]
    /\ UNCHANGED <<time_span, progress, skip, runner_just_completed, written,
                   last, hist>>

\* tick_time_runner_system
TickPass == TickPassOf(FrameDeltas)

\* Every runner recorded by the last pass is cleaned, completed or not.
cleans_just_completed_unchecked ==
    /\ RunnerEntity \in runner_just_completed
    /\ skip = "none"

\* time_runner_system, lines 463-478: the runners recorded by the last pass.
cleans_just_completed ==
    /\ RunnerEntity \in runner_just_completed
    /\ skip = "none"
    /\ is_completed(runner)

\* time_runner_system, lines 493-498: the runner goes through the main pass.
in_main_pass == skip = "none" /\ ~is_completed(runner)

\* time_runner_system, with its commands applied
DispatchEffect ==
    /\ pc = "dispatch"
    /\ pc' = "tick"
    /\ skip' = IF skip = "added" THEN "present" ELSE skip
    /\ progress' =
          IF cleans_just_completed \/ skip = "added"
          THEN [c \in Children |-> NoProgress]
          ELSE IF in_main_pass
          THEN [c \in Children |->
                    span_progress(runner, time_span[c], progress[c])]
          ELSE progress
    /\ written' =
          IF in_main_pass
          THEN {c \in Children : span_use_time(runner, time_span[c]) # UseNone}
          ELSE {}
    /\ runner' = IF in_main_pass THEN collaspe_elasped(runner) ELSE runner
    /\ runner_just_completed' =
          IF in_main_pass /\ is_completed(collaspe_elasped(runner))
          THEN {RunnerEntity}
          ELSE {}
    /\ window' =
          IF in_main_pass
          THEN [window EXCEPT !.read = TRUE,
                              !.previous = runner.elasped.previous,
                              !.now = runner.elasped.now]
          ELSE window
    /\ hist' =
          IF in_main_pass
          THEN [hist EXCEPT !.snapped =
                   {c \in Children :
                        span_use_time(runner, time_span[c]) \in {Min, Max}}]
          ELSE hist
    /\ UNCHANGED <<time_span, ended>>

DispatchPass == DispatchEffect /\ UNCHANGED last

Next ==
    \/ SetDirection
    \/ SetRepeat
    \/ SetTimeScale
    \/ SetTick
    \/ SetPaused
    \/ InsertSkip
    \/ RemoveSkip
    \/ TickPass
    \/ DispatchPass

Spec == Init /\ [][Next]_vars

\* ------------------------------------------------ two runs of the app

\* What a frame starts from, as the world holds it: the runner, the spans,
\* their SpanProgress and whether the SkipTimeRunner marker is attached.
World ==
    [runner |-> runner, time_span |-> time_span, progress |-> progress,
     skip |-> skip # "none"]

\* A dispatch pass of the first run that found an entry in its Local is
\* kept for comparison: the world it started from and the runner and the
\* SpanProgress it left.
RememberPass ==
    /\ last = NoCall
    /\ runner_just_completed # {}
    /\ DispatchEffect
    /\ last' = [op |-> "remembered", world |-> World,
                runner |-> runner', progress |-> progress']

\* The app is started again on the same spans: a new runner, no progress,
\* no marker and an empty Local.
SecondRun ==
    /\ last # NoCall
    /\ last.op = "remembered"
    /\ pc = "tick"
    /\ runner' = TimeRunner_new(MaxLength)
    /\ progress' = [c \in DOMAIN time_span |-> NoProgress]
    /\ skip' = "none"
    /\ runner_just_completed' = {}
    /\ ended' = <<>>
    /\ pc' = "setup"
    /\ window' = NoWindow
    /\ written' = {}
    /\ last' = [last EXCEPT !.op = "second run"]
    /\ hist' = NoHist
    /\ UNCHANGED time_span

NextTwin ==
    \/ SetDirection
    \/ SetRepeat
    \/ TickPass
    \/ DispatchPass
    \/ RememberPass
    \/ SecondRun

SpecTwin == Init /\ [][NextTwin]_vars

\* ------------------------------------------ a completed runner set again

\* Between two frames the host gives a completed runner another repeat.
SetRepeatCompleted ==
    /\ pc = "tick"
    /\ is_completed(runner)
    /\ \E repeat \in RepeatOptions : runner' = set_repeat(runner, repeat)
    /\ UNCHANGED <<skip, pc>>
    /\ HostUnchanged

NextHost ==
    \/ SetDirection
    \/ SetRepeat
    \/ SetTimeScale
    \/ SetTick
    \/ SetRepeatCompleted
    \/ TickPass
    \/ DispatchPass

SpecHost == Init /\ [][NextHost]_vars

\* ------------------------------------------ every frame advances the time

\* tick_time_runner_system in a frame that took some time
TickPassPositive == TickPassOf(FrameDeltas \ {0})

NextLive ==
    \/ SetDirection
    \/ SetRepeat
    \/ SetTick
    \/ TickPassPositive
    \/ DispatchPass

\* The app runs both systems in every frame (lib.rs: they are added to the
\* schedule, the tick before the dispatch), and every frame takes time.
SpecLive ==
    /\ Init
    /\ [][NextLive]_vars
    /\ WF_vars(TickPassPositive)
    /\ WF_vars(DispatchPass)

\* ------------------------------------- the window between two dispatches

\* A runner as the host configured it; the host then ticks it as it likes,
\* and time_runner_system reads and collapses its window now and then.
InitWindow ==
    /\ \E direction \in TimeDirection, repeat \in RepeatOptions :
          runner = set_repeat(
                       set_direction(TimeRunner_new(MaxLength), direction),
                       repeat)
    /\ time_span = <<>>
    /\ progress = <<>>
    /\ skip = "none"
    /\ runner_just_completed = {}
    /\ ended = <<>>
    /\ pc = "window"
    /\ window = NoWindow
    /\ written = {}
    /\ last = NoCall
    /\ hist = NoHist

WindowTick ==
    /\ pc = "window"
    /\ hist.n < MaxCalls
    /\ \E secs \in 0 .. MaxFrameDelta :
          /\ runner' = tick(runner, secs)
          /\ CounterInBound(runner')
          /\ last' = [op |-> "tick", secs |-> secs]
    /\ hist' = [hist EXCEPT !.n = @ + 1]
    /\ WorldUnchanged

\* time_runner_system, lines 507-508 and 584: the window is read, and
\* collapsed once the spans were dealt with.
WindowDispatch ==
    /\ pc = "window"
    /\ ~is_completed(runner)
    /\ runner' = collaspe_elasped(runner)
    /\ last' = [op |-> "dispatch", secs |-> 0]
    \* hist.n counts the ticks made since this pass
    /\ hist' = [hist EXCEPT !.n = 0, !.collapsed = TRUE,
                            !.seen = runner.elasped.now]
    /\ WorldUnchanged

NextWindow ==
    \/ WindowTick
    \/ WindowDispatch

SpecWindow == InitWindow /\ [][NextWindow]_vars

\* ------------------------------------------------ TimeSpan construction

TimeBounds ==
    {Inclusive(d) : d \in 0 .. MaxLength} \cup {Exclusive(d) : d \in 0 .. MaxLength}
Samples == (-1) .. (MaxLength + 1)
Ranges == {"Range", "RangeInclusive", "RangeTo", "RangeToInclusive"}

\* The bounds and the sample a caller holds; no span is made yet.
InitSpan ==
    /\ runner = TimeRunner_new(MaxLength)
    /\ time_span = <<>>
    /\ progress = <<>>
    /\ skip = "none"
    /\ runner_just_completed = {}
    /\ ended = <<>>
    /\ pc = "span"
    /\ window = NoWindow
    /\ written = {}
    /\ \E min \in TimeBounds, max \in TimeBounds, secs \in Samples :
          last = [op |-> "input", min |-> min, max |-> max, secs |-> secs,
                  result |-> "none"]
    /\ hist = NoHist

SpanUnchanged ==
    UNCHANGED <<runner, progress, skip, runner_just_completed, ended, pc,
                window, written, hist>>

\* The value a constructor returned: the span it made, if any, and the error.
Returned(op, res) ==
    /\ time_span' = IF res.ok THEN <<res.span>> ELSE <<>>
    /\ last' = [last EXCEPT !.op = op,
                            !.result = IF res.ok THEN "Ok" ELSE res.err]

SpanNew ==
    /\ pc = "span" /\ last.op = "input"
    /\ Returned("new", TimeSpan_new(last.min, last.max))
    /\ SpanUnchanged

SpanTryFrom ==
    /\ pc = "span" /\ last.op = "input"
    /\ \E range \in Ranges :
          Returned(range, try_from(range, last.min.duration, last.max.duration))
    /\ SpanUnchanged

SpanQuotient ==
    /\ pc = "span" /\ last.op \in {"new"} \cup Ranges
    /\ time_span # <<>>
    /\ last' = [last EXCEPT !.op = "quotient",
                            !.result = quotient(time_span[1], last.secs)]
    /\ UNCHANGED time_span
    /\ SpanUnchanged

NextSpan ==
    \/ SpanNew
    \/ SpanTryFrom
    \/ SpanQuotient

SpecSpan == InitSpan /\ [][NextSpan]_vars

\* ------------------------------------------- the functions of one call

\* The repeats a caller may hold, counter included.
CountedRepeats ==
    {Infinitely}
        \cup {InfinitelyCounted(n) : n \in 0 .. MaxCount}
        \cup UNION {{Times(n, done) : done \in 0 .. n} : n \in 0 .. MaxTimes}

\* The arguments of one call of span_in_range or of advance_counter_by.
Calls ==
    { [op |-> "input", fn |-> "span_in_range",
       args |-> [direction |-> d, previous_quotient |-> qp,
                 now_quotient |-> qn, repeated |-> rp],
       result |-> "none"] :
          d \in TimeDirection, qp \in DurationQuotient,
          qn \in DurationQuotient, rp \in {NotRepeated} \cup RepeatStyle }
    \cup
    { [op |-> "input", fn |-> "advance_counter_by",
       args |-> [repeat |-> rep, by |-> by],
       result |-> "none"] :
          rep \in CountedRepeats, by \in (-MaxCount) .. MaxCount }

InitFn ==
    /\ runner = TimeRunner_new(MaxLength)
    /\ time_span = <<>>
    /\ progress = <<>>
    /\ skip = "none"
    /\ runner_just_completed = {}
    /\ ended = <<>>
    /\ pc = "fn"
    /\ window = NoWindow
    /\ written = {}
    /\ last \in Calls
    /\ hist = NoHist

FnUnchanged ==
    UNCHANGED <<runner, time_span, progress, skip, runner_just_completed,
                ended, pc, window, written, hist>>

FnSpanInRange ==
    /\ pc = "fn" /\ last.op = "input" /\ last.fn = "span_in_range"
    /\ last' = [last EXCEPT
                   !.op = "output",
                   !.result = span_in_range(last.args.direction,
                                            last.args.previous_quotient,
                                            last.args.now_quotient,
                                            last.args.repeated)]
    /\ FnUnchanged

FnAdvanceCounterBy ==
    /\ pc = "fn" /\ last.op = "input" /\ last.fn = "advance_counter_by"
    /\ last' = [last EXCEPT
                   !.op = "output",
                   !.result = advance_counter_by(last.args.repeat,
                                                 last.args.by)]
    /\ FnUnchanged

NextFn ==
    \/ FnSpanInRange
    \/ FnAdvanceCounterBy

SpecFn == InitFn /\ [][NextFn]_vars

\* ---------------------------------------------- the path of the cursor

Lo(a, b) == IF a < b THEN a ELSE b
Hi(a, b) == IF a < b THEN b ELSE a

\* The closed intervals <<lo, hi>> the cursor went through in the tick that
\* window w records, on a timeline of the given length.
Path(w, length) ==
    IF ~w.open THEN {}
    ELSE IF ~w.wrapped
    THEN LET stop == IF w.target > length THEN length
                     ELSE IF w.target < 0 THEN 0 ELSE w.target
         IN  {<<Lo(w.from, stop), Hi(w.from, stop)>>}
    ELSE IF Abs(w.periods) >= 2 THEN {<<0, length>>}
    ELSE IF w.style = WrapAround
    THEN IF w.periods = 1
         THEN {<<w.from, length>>, <<0, w.target - length>>}
         ELSE {<<0, w.from>>, <<w.target + length, length>>}
    ELSE IF w.periods = 1
         THEN {<<Lo(w.from, 2 * length - w.target), length>>}
         ELSE {<<0, Hi(w.from, -w.target)>>}

\* Some point of the closed interval iv lies in the span.
Intersects(span, iv) ==
    /\ \/ span.min.duration < span.max.duration
       \/ /\ span.min.duration = span.max.duration
          /\ span.min.kind = "Inclusive" /\ span.max.kind = "Inclusive"
    /\ IF span.max.kind = "Inclusive"
       THEN iv[1] <= span.max.duration ELSE iv[1] < span.max.duration
    /\ IF span.min.kind = "Inclusive"
       THEN iv[2] >= span.min.duration ELSE iv[2] > span.min.duration

\* The tick of this frame took the cursor into or through the span.
TouchedByTick(span) ==
    \E iv \in Path(window, runner.length) : Intersects(span, iv)

\* The cursor was in the span at either end of the window the dispatch reads,
\* or went through it in the tick that opened the window.
TouchedInWindow(span) ==
    \/ quotient(span, runner.elasped.previous) = Inside
    \/ quotient(span, runner.elasped.now) = Inside
    \/ TouchedByTick(span)

SpanLength(span) == span.max.duration - span.min.duration

\* --------------------------------------------- claims on the two systems

\* The dispatch about to run takes a runner without repeat through its main
\* pass, after one tick that moved the cursor forward.
C2_BigTick ==
    /\ pc = "dispatch"
    /\ in_main_pass
    /\ window.ticked
    /\ ~runner.repeat.some
    /\ runner.elasped.previous < runner.elasped.now

\* C2: when one tick of a non-repeating runner carries the cursor over a span
\* of positive length, the dispatch of that frame gives the span a
\* SpanProgress with now = the span's length, now_percentage = 1,
\* previous = runner previous - span.min and previous_percentage =
\* previous / span length.
C2_CarriedOverSpan ==
    [][C2_BigTick =>
        \A c \in Children :
            (/\ SpanLength(time_span[c]) > 0
             /\ runner.elasped.previous <= time_span[c].min.duration
             /\ runner.elasped.now >= time_span[c].max.duration) =>
                progress'[c] =
                    TimeSpanProgress(
                        One,
                        SpanLength(time_span[c]),
                        Rat(runner.elasped.previous - time_span[c].min.duration,
                            SpanLength(time_span[c])),
                        runner.elasped.previous - time_span[c].min.duration)
    ]_vars

\* C3: when one tick of a non-repeating Forward runner moves the cursor from
\* before a zero-length closed span [a, a] to after it, the dispatch gives the
\* span now = 0, now_percentage = +infinity, previous = runner previous - a
\* and previous_percentage = -infinity.
C3_ZeroLengthSpan ==
    [][(C2_BigTick /\ runner.direction = Forward) =>
        \A c \in Children :
            (/\ SpanLength(time_span[c]) = 0
             /\ time_span[c].min.kind = "Inclusive"
             /\ time_span[c].max.kind = "Inclusive"
             /\ runner.elasped.previous < time_span[c].min.duration
             /\ runner.elasped.now > time_span[c].max.duration) =>
                progress'[c] =
                    TimeSpanProgress(
                        INFINITY, 0, NEG_INFINITY,
                        runner.elasped.previous - time_span[c].min.duration)
    ]_vars

\* C4: once a runner has become completed (in a tick pass or at the collapse
\* of a dispatch pass), the dispatch pass of the following frame, and every
\* later one while the runner stays completed, ends with no SpanProgress on
\* any of its spans.  A runner that is completed and was not ticked in this
\* frame became completed in an earlier one.
C4_CompletedLosesProgress ==
    [][(pc = "dispatch" /\ is_completed(runner) /\ ~window.ticked) =>
        \A c \in Children : ~progress'[c].some
    ]_vars

\* The tick just made leaves the runner on its completion edge: the collapse
\* of this frame's dispatch makes it completed.
C5_OnCompletionEdge ==
    /\ pc = "dispatch"
    /\ window.ticked
    /\ is_completed(collaspe_elasped(runner))

\* C5: the tick pass that moves a runner onto its completion edge sends a
\* TimeRunnerEnded event for it, Forward or Backward, without repeat or with
\* an exhausted Times repeat of either style.
C5_EndedOnCompletionEdge ==
    C5_OnCompletionEdge =>
        \E i \in DOMAIN ended : ended[i].time_runner = RunnerEntity

\* C6: with ticks that cross at most one period boundary, every span of a
\* non-skipped runner that the cursor touched in the tick of this frame has
\* a SpanProgress inserted or updated by the dispatch of this frame.
C6_TouchedIsWritten ==
    [][(/\ pc = "dispatch"
        /\ skip = "none"
        /\ window.ticked
        /\ Abs(window.periods) <= 1) =>
        \A c \in Children : TouchedByTick(time_span[c]) => c \in written'
    ]_vars

\* C6, short of the runners the tick pass itself left completed (they never
\* reach the main pass) and of a reversed time scale: there it holds.
C6_TouchedIsWrittenInMainPass ==
    [][(/\ pc = "dispatch"
        /\ skip = "none"
        /\ window.ticked
        /\ ~is_completed(runner)
        /\ runner.time_scale = 1
        /\ Abs(window.periods) <= 1) =>
        \A c \in Children : TouchedByTick(time_span[c]) => c \in written'
    ]_vars

\* C7: a dispatch pass leaves SpanProgress only on the spans the cursor was
\* in, or went through, in the window since the previous dispatch pass; this
\* for every repeat policy and for paused runners.
C7_WrittenIsTouched ==
    [][(pc = "dispatch" /\ in_main_pass) =>
        \A c \in Children :
            progress'[c].some => TouchedInWindow(time_span[c])
    ]_vars

\* C8: once is_completed() is true it stays true through every tick pass and
\* dispatch pass, and elapsed.now, elapsed.now_period, the direction and the
\* repeat counter stay as they are.
C8_CompletedIsStable ==
    [][(is_completed(runner) /\ ~(pc = "setup" /\ pc' = "setup")) =>
        /\ is_completed(runner')
        /\ runner'.elasped.now = runner.elasped.now
        /\ runner'.elasped.now_period = runner.elasped.now_period
        /\ runner'.direction = runner.direction
        /\ runner'.repeat = runner.repeat
    ]_vars

\* A tick pass has just left alone a running (not paused) runner whose Times
\* repeat is exhausted and which is completed away from its starting point.
C8_Witness ==
    /\ pc = "dispatch"
    /\ ~window.ticked
    /\ ~runner.paused
    /\ runner.repeat.some
    /\ runner.repeat.repeat.kind = "Times"
    /\ runner.repeat.repeat.times_repeated >= 1
    /\ is_completed(runner)
    /\ runner_just_completed = {RunnerEntity}

\* ------------------------------------------------------ claims on raw_tick

\* C1: after every raw_tick on a runner of length L > 0 the cursor satisfies
\* 0 <= elapsed.now <= L, whatever the direction, the repeat setting and the
\* sign and size of the delta (several periods in one tick included).
C1_NowWithinLength ==
    last.op = "raw_tick" =>
        /\ 0 <= runner.elasped.now
        /\ runner.elasped.now <= runner.length

\* A raw_tick of a repeating runner that crossed two periods or more.
C1_Witness ==
    /\ last.op = "raw_tick"
    /\ runner.repeat.some
    /\ Abs(Floor(runner.elasped.now_period)) >= 2
    /\ runner.elasped.now # runner.elasped.previous

\* The step is a raw_tick of a (Times, WrapAround) runner by a delta >= 0.
C9_Step ==
    /\ last'.op = "raw_tick"
    /\ last'.secs >= 0
    /\ runner.repeat.some
    /\ runner.repeat.style = WrapAround
    /\ runner.repeat.repeat.kind = "Times"

\* The candidate cursor of the step, and the periods it crosses.
C9_Target ==
    IF runner.direction = Forward
    THEN runner.elasped.now + last'.secs
    ELSE runner.elasped.now - last'.secs

C9_CrossesOne ==
    IF runner.direction = Forward
    THEN runner.length <= C9_Target /\ C9_Target < 2 * runner.length
    ELSE -runner.length <= C9_Target /\ C9_Target < 0

C9_PassesEdge ==
    IF runner.direction = Forward
    THEN C9_Target >= runner.length
    ELSE C9_Target <= 0

C10_PeriodTicks ==
    /\ hist.period_run
    /\ runner.repeat.some
    /\ runner.repeat.repeat.kind = "Times"
    /\ runner.repeat.repeat.times >= 1

C10_Law ==
    /\ hist.n = runner.repeat.repeat.times =>
          runner.repeat.repeat.times_repeated = runner.repeat.repeat.times
    /\ hist.n = runner.repeat.repeat.times + 1 => is_completed(runner)

C11_Step ==
    /\ last'.op = "raw_tick"
    /\ last'.secs >= 0
    /\ runner.repeat.some
    /\ runner.repeat.style = WrapAround
    /\ runner.repeat.repeat.kind \in {"Infinitely", "InfinitelyCounted"}

\* now_before + d for a Forward runner, now_before - d for a Backward one.
C11_Moved ==
    IF runner.direction = Forward
    THEN runner.elasped.now + last'.secs
    ELSE runner.elasped.now - last'.secs

\* C11: with an unlimited WrapAround repeat, raw_tick(d), d >= 0, leaves now
\* = (now_before +/- d) mod L, the Euclidean remainder in [0, L), and
\* now_period = the unclamped (now_before +/- d) / L.
C11_UnlimitedWrapAround ==
    [][C11_Step =>
        /\ runner'.elasped.now = C11_Moved % runner.length
        /\ 0 <= runner'.elasped.now /\ runner'.elasped.now < runner.length
        /\ runner'.elasped.now_period.den > 0
        /\ runner'.elasped.now_period.num * runner.length =
               C11_Moved * runner'.elasped.now_period.den
    ]_vars

\* raw_tick(L) from now = 0, Forward: now = 0 and now_period = 1.
C11_Witness ==
    /\ last.op = "raw_tick"
    /\ last.secs = runner.length
    /\ hist.n = 1
    /\ runner.repeat = SomeRepeat(Infinitely, WrapAround)
    /\ runner.direction = Forward
    /\ runner.elasped.previous = 0
    /\ runner.elasped.now = 0
    /\ runner.elasped.now_period = One

\* From construction, only raw_ticks with deltas >= 0 were made, at least
\* one, on an (Infinitely, PingPong) runner that started at now = 0, Forward;
\* hist.sum is the sum T of the deltas.
C12_WaveRun == hist.wave_run /\ hist.n >= 1

\* |((T + L) mod 2L) - L|
C12_Triangle ==
    Abs(((hist.sum + runner.length) % (2 * runner.length)) - runner.length)

\* Forward iff floor(T / L) is even.
C12_Parity ==
    runner.direction =
        (IF (hist.sum \div runner.length) % 2 = 0 THEN Forward ELSE Backward)

\* C12 as stated: after raw_ticks with deltas >= 0 that sum to T, now is the
\* triangle wave of T and the direction is Forward iff floor(T / L) is even.
C12_AsStated ==
    C12_WaveRun => (runner.elasped.now = C12_Triangle /\ C12_Parity)

\* What does hold: now is the triangle wave of T, and the direction is the
\* one of the parity while T is not a multiple of L, and after a single
\* raw_tick of 2L (now = 0, Forward).
C12_TriangleWaveOffBoundary ==
    C12_WaveRun =>
        /\ runner.elasped.now = C12_Triangle
        /\ hist.sum % runner.length # 0 => C12_Parity
        /\ (hist.n = 1 /\ hist.sum = 2 * runner.length) =>
               (runner.elasped.now = 0 /\ runner.direction = Forward)

\* clamp(now_before +/- d, 0, L) of a raw_tick(d) step.
C13_Clamped ==
    LET moved == IF runner.direction = Forward
                 THEN runner.elasped.now + last'.secs
                 ELSE runner.elasped.now - last'.secs
    IN  IF moved < 0 THEN 0
        ELSE IF moved > runner.length THEN runner.length ELSE moved

\* The cursor sits at the clamp of the runner's direction.
C13_AtClamp ==
    IF runner.direction = Forward
    THEN runner.elasped.now = runner.length /\ runner.elasped.now_period = One
    ELSE runner.elasped.now = 0 /\ runner.elasped.now_period = Zero

\* C13: without a repeat policy, raw_tick(d) leaves now = clamp(now_before
\* +/- d, 0, L) and now_period = now / L (1 at the upper clamp, 0 at the
\* lower); once the cursor sits at the clamp, ticks in the same direction
\* leave now and now_period as they are.
C13_NoRepeatClamps ==
    [][(last'.op = "raw_tick" /\ ~runner.repeat.some) =>
        /\ runner'.elasped.now = C13_Clamped
        /\ runner'.elasped.now_period = Rat(C13_Clamped, runner.length)
        /\ (C13_AtClamp /\ last'.secs >= 0) =>
               /\ runner'.elasped.now = runner.elasped.now
               /\ runner'.elasped.now_period = runner.elasped.now_period
    ]_vars

\* A tick that overshoots L, then one more tick at the clamp.
C13_Witness ==
    /\ last.op = "raw_tick"
    /\ last.secs > 0
    /\ hist.n >= 2
    /\ ~runner.repeat.some
    /\ runner.direction = Forward
    /\ runner.elasped.now = runner.length
    /\ runner.elasped.previous = runner.length
    /\ runner.elasped.now_period = One

\* C19: in every state of a TimeRunner, after any calls of new, set_length,
\* set_direction, set_repeat, set_tick, tick, raw_tick and the collapse,
\* elapsed.now and elapsed.previous are both within [0, length].
C19_CursorWithinLength ==
    pc = "api" =>
        /\ 0 <= runner.elasped.now /\ runner.elasped.now <= runner.length
        /\ 0 <= runner.elasped.previous
        /\ runner.elasped.previous <= runner.length

\* -------------------------------------- more claims on the two systems

\* This step is a tick pass made after some dispatch pass.
TickPassStep == pc = "tick" /\ pc' = "dispatch"

\* A dispatch pass makes no progress while the marker is attached: it leaves
\* no SpanProgress on the spans and inserts or updates none.
C14_ProgressSuppressed ==
    [][(pc = "dispatch" /\ skip # "none") =>
        /\ written' = {}
        /\ \A c \in Children : ~progress'[c].some
    ]_vars

\* The tick pass puts a marked runner to the same test as any other runner.
C14_SameTickTest ==
    [][(TickPassStep /\ skip # "none") =>
        (window'.ticked <=> ~(runner.paused \/ is_completed(runner)))
    ]_vars

\* C14: when the SkipTimeRunner marker is attached, the next dispatch pass
\* removes SpanProgress from all spans of the runner and no dispatch pass
\* attaches or updates any while the marker stays; meanwhile the tick pass
\* advances the cursor and emits Ended events exactly as for a non-skipped
\* runner, whose window the dispatch pass before has collapsed: a runner
\* that such a collapse leaves completed is not ticked and emits nothing.
C14_SkippedRunner ==
    [][/\ (pc = "dispatch" /\ skip # "none") =>
            /\ written' = {}
            /\ \A c \in Children : ~progress'[c].some
       /\ (TickPassStep /\ skip # "none") =>
            IF runner.paused \/ is_completed(collaspe_elasped(runner))
            THEN /\ ~window'.ticked
                 /\ runner'.elasped = runner.elasped
                 /\ ended' = <<>>
            ELSE window'.ticked
    ]_vars

\* C15: for a non-completed, non-skipped runner without repeat, after the
\* dispatch pass a span has SpanProgress if the cursor is inside it now, was
\* inside it at the previous position, or went from one side of it to the
\* other; it has none if both positions are Before it or both After it.
C15_NoRepeatInRange ==
    [][(pc = "dispatch" /\ in_main_pass /\ ~runner.repeat.some) =>
        \A c \in Children :
            LET qp == quotient(time_span[c], runner.elasped.previous)
                qn == quotient(time_span[c], runner.elasped.now)
            IN  /\ (qn = Inside \/ qp = Inside \/ {qp, qn} = {Before, After})
                       => progress'[c].some
                /\ (qp = qn /\ qn \in {Before, After}) => ~progress'[c].some
    ]_vars

\* One window took the cursor from before the span [1, 3) to after it.
C15_Witness ==
    /\ pc = "tick"
    /\ window.read
    /\ ~runner.repeat.some
    /\ \E c \in Children :
          /\ time_span[c] = new_unchecked(Inclusive(1), Exclusive(3))
          /\ quotient(time_span[c], window.previous) = Before
          /\ quotient(time_span[c], window.now) = After
          /\ progress[c].some

\* The test of the tick pass on the runner as the tick left it.
C16_Qualifies ==
    LET n == runner'.elasped.now_period
    IN  IF runner'.repeat.some /\ runner'.repeat.style = PingPong
        THEN \/ runner'.direction = Forward /\ n.num < 0
             \/ runner'.direction = Backward /\ n.num >= n.den
        ELSE \/ runner'.direction = Forward /\ n.num >= n.den
             \/ runner'.direction = Backward /\ n.num < 0

C20_PreviousIsLastSeen ==
    [][(last'.op = "dispatch" /\ hist.collapsed) =>
        runner.elasped.previous = hist.seen
    ]_vars

\* With at most one tick between two dispatch passes, as the plugin
\* schedules them, it is.
C20_PreviousIsLastSeenOneTick ==
    [][(last'.op = "dispatch" /\ hist.collapsed /\ hist.n <= 1) =>
        runner.elasped.previous = hist.seen
    ]_vars

\* ------------------------------------------------- claims on TimeSpan

\* C17: TimeSpan::new(min, max) returns Err(NotTime) iff both bounds are
\* Exclusive with equal durations, Err(MinGreaterThanMax) iff min.duration >
\* max.duration, and otherwise Ok with a span holding exactly min and max; on
\* an error no span is made.
C17_NewTimeSpan ==
    last.op = "new" =>
        LET both_exclusive_equal ==
                /\ last.min.kind = "Exclusive" /\ last.max.kind = "Exclusive"
                /\ last.min.duration = last.max.duration
            min_greater == last.min.duration > last.max.duration
        IN  /\ last.result = "NotTime" <=> both_exclusive_equal
            /\ last.result = "MinGreaterThanMax" <=> min_greater
            /\ (~both_exclusive_equal /\ ~min_greater) =>
                   /\ last.result = "Ok"
                   /\ time_span = <<[min |-> last.min, max |-> last.max]>>
            /\ last.result # "Ok" => time_span = <<>>

\* All three outcomes: here (a, a) was refused as holding no time.
C17_Witness ==
    /\ last.op = "new"
    /\ last.result = "NotTime"
    /\ last.min = Exclusive(2) /\ last.max = Exclusive(2)
    /\ time_span = <<>>

\* C18: for a span TimeSpan::new accepted and a sample s, quotient(s) is
\* Inside iff s passes both endpoint tests, Before iff it fails the lower
\* one, After iff it fails the upper one; the arm where both fail is never
\* reached.
C18_QuotientAgrees ==
    last.op = "quotient" =>
        LET span == time_span[1]
            s == last.secs
            lower == \/ span.min.kind = "Inclusive" /\ s >= span.min.duration
                     \/ span.min.kind = "Exclusive" /\ s > span.min.duration
            upper == \/ span.max.kind = "Inclusive" /\ s <= span.max.duration
                     \/ span.max.kind = "Exclusive" /\ s < span.max.duration
        IN  /\ last.result \in DurationQuotient
            /\ last.result = Inside <=> (lower /\ upper)
            /\ last.result = Before <=> ~lower
            /\ last.result = After <=> ~upper

\* A sample on the open end of (1, 3] is Before it.
C18_Witness ==
    /\ last.op = "quotient"
    /\ time_span = <<new_unchecked(Exclusive(1), Inclusive(3))>>
    /\ last.secs = 1
    /\ last.result = Before

\* ------------------------------------------------- the dispatch pass

\* The step is a dispatch pass that takes the runner through its main pass.
MainPassStep == pc = "dispatch" /\ pc' = "tick" /\ in_main_pass

\* pct is the percentage the claim gives for the value v of a span.
C28_IsPercentage(pct, v, span_length, direction) ==
    IF span_length > 0
    THEN pct.den > 0 /\ pct.num * span_length = v * pct.den
    ELSE IF v > 0 \/ (v = 0 /\ direction = Forward)
    THEN pct = INFINITY
    ELSE pct = NEG_INFINITY

\* C28: the percentage the dispatch pass publishes for a value v, the new
\* now and the new previous each on its own, is v / span_length when
\* span_length > 0; on a span of length 0 it is +infinity for v > 0,
\* -infinity for v < 0, and for v = 0 +infinity when the runner's direction
\* is Forward and -infinity when it is Backward, whichever way the cursor
\* moved.
C28_Percentage ==
    [][MainPassStep =>
        \A c \in written' :
            /\ C28_IsPercentage(progress'[c].now_percentage,
                                progress'[c].now,
                                SpanLength(time_span[c]), runner.direction)
            /\ ~progress[c].some =>
                   C28_IsPercentage(progress'[c].previous_percentage,
                                    progress'[c].previous,
                                    SpanLength(time_span[c]),
                                    runner.direction)
    ]_vars

\* A Forward runner with time_scale -1 moved back onto the span [2, 2]:
\* the span is given +infinity at 0.
C28_Witness ==
    /\ pc = "tick"
    /\ window.read /\ window.previous > window.now
    /\ runner.direction = Forward
    /\ SpanLength(time_span[1]) = 0
    /\ 1 \in written
    /\ progress[1].some
    /\ progress[1].now = 0
    /\ progress[1].now_percentage = INFINITY

\* ----------------------------------------------------- the tick pass

\* C22: TimeRunner::tick and the tick pass leave a paused or completed
\* runner as it is, elapsed times, direction and repeat counter, and emit
\* no event; on any other runner they do what raw_tick(secs * time_scale)
\* does.
C22_TickOrLeave ==
    [][pc' = "dispatch" =>
        IF runner.paused \/ is_completed(runner)
        THEN /\ runner'.elasped = runner.elasped
             /\ runner'.direction = runner.direction
             /\ runner'.repeat = runner.repeat
             /\ runner' = tick(runner, MaxFrameDelta)
             /\ ended' = <<>>
        ELSE \E secs \in FrameDeltas :
                /\ window'.target = tick_target(runner,
                                                secs * runner.time_scale)
                /\ runner' = raw_tick(runner, secs * runner.time_scale)
                /\ runner' = tick(runner, secs)
    ]_vars

\* The tick pass has just left alone a paused runner that is in the middle
\* of its timeline, and a dispatch pass before it saw the runner move.
C22_Witness ==
    /\ pc = "dispatch"
    /\ ~window.ticked
    /\ runner.paused
    /\ ~is_completed(runner)
    /\ 0 < runner.elasped.now /\ runner.elasped.now < runner.length
    /\ ended = <<>>

\* ------------------------------------- several periods in one raw_tick

\* The step is a raw_tick of a runner with a Times repeat.
C26_Step ==
    /\ last'.op = "raw_tick"
    /\ runner.repeat.some
    /\ runner.repeat.repeat.kind = "Times"

\* The position the tick asks for, before any wrapping or clamping.
C26_Target ==
    IF runner.direction = Forward
    THEN runner.elasped.now + last'.secs
    ELSE runner.elasped.now - last'.secs

\* k: the period boundaries between the cursor and that position, counted
\* in the direction of the runner; r: what is left of the Times counter.
C26_Crossed ==
    IF runner.direction = Forward
    THEN C26_Target \div runner.length
    ELSE -(C26_Target \div runner.length)

C26_Remaining ==
    runner.repeat.repeat.times - runner.repeat.repeat.times_repeated

\* The position folded back into the timeline, as the style folds it.
C26_Wrapped ==
    IF runner.repeat.style = WrapAround
    THEN C26_Target % runner.length
    ELSE LET m == C26_Target % (2 * runner.length)
         IN  IF m <= runner.length THEN m ELSE 2 * runner.length - m

\* C26: when one raw_tick crosses k >= 2 period boundaries and the Times
\* counter has r left, 0 < r < k, the counter goes up by exactly r, to its
\* limit, the cursor is put on the fully wrapped position (new position
\* mod L for WrapAround, the triangle wave for PingPong) and not on the
\* edge, and now_period keeps the unclamped value.
C26_PartlyCounted ==
    [][(C26_Step /\ C26_Crossed >= 2
            /\ 0 < C26_Remaining /\ C26_Remaining < C26_Crossed) =>
        /\ runner'.repeat.repeat.times_repeated =
               runner.repeat.repeat.times_repeated + C26_Remaining
        /\ runner'.repeat.repeat.times_repeated = runner.repeat.repeat.times
        /\ runner'.elasped.now = C26_Wrapped
        /\ runner'.elasped.now_period.den > 0
        /\ runner'.elasped.now_period.num * runner.length =
               C26_Target * runner'.elasped.now_period.den
    ]_vars

\* One raw_tick took a Forward Times(2) runner over three boundaries: the
\* counter is full and the cursor is inside the timeline, off the edge.
C26_Witness ==
    /\ last.op = "raw_tick"
    /\ hist.n = 1
    /\ runner.repeat = SomeRepeat(Times(2, 2), WrapAround)
    /\ runner.direction = Forward
    /\ RatGe(runner.elasped.now_period, 3)
    /\ 0 < runner.elasped.now /\ runner.elasped.now < runner.length

\* ------------------------------------------------- the wrapping tick

\* The tick of this frame wrapped a WrapAround runner, and on its way the
\* cursor went over span c or out of it and has come to rest outside it.
C24_LeaptOver(c) ==
    /\ window.ticked /\ window.wrapped /\ window.style = WrapAround
    /\ skip = "none"
    /\ TouchedByTick(time_span[c])
    /\ quotient(time_span[c], runner.elasped.now) # Inside

\* The exit edge of a span, in the coordinates of the span.
C24_ExitEdge(c) ==
    IF runner.direction = Forward THEN SpanLength(time_span[c]) ELSE 0

\* The cursor rests on one side of span c and the tick of this frame, if
\* there was one, did not wrap.
C24_StaysOutside(c) ==
    /\ ~(window.ticked /\ window.wrapped)
    /\ quotient(time_span[c], runner.elasped.now) # Inside
    /\ quotient(time_span[c], runner.elasped.previous) =
           quotient(time_span[c], runner.elasped.now)

\* C24: for a WrapAround runner, whenever one wrapping tick makes the
\* cursor leap over a span entirely, or leave it across the period
\* boundary, the dispatch pass of that frame publishes progress pinned to
\* the exit edge of the span (Forward: now = span length; Backward: now =
\* 0), and a later dispatch pass removes it once the cursor stays outside
\* the span.
C24_PinnedToExitEdge ==
    [][(pc = "dispatch" /\ pc' = "tick") =>
        \A c \in Children :
            /\ C24_LeaptOver(c) =>
                  /\ progress'[c].some
                  /\ progress'[c].now = C24_ExitEdge(c)
            /\ C24_StaysOutside(c) => ~progress'[c].some
    ]_vars

\* The same said of the main pass only, and of the spans the cursor is on
\* the entry side of after the wrap: the decision is Max or Min, and the
\* progress is pinned.
C24_PinnedInMainPass ==
    [][MainPassStep =>
        \A c \in Children :
            (/\ repeated_of(runner) = WrapAround
             /\ quotient(time_span[c], runner.elasped.previous) # 
                    (IF runner.direction = Forward THEN After ELSE Before)
             /\ quotient(time_span[c], runner.elasped.now) =
                    (IF runner.direction = Forward THEN Before ELSE After)) =>
                /\ progress'[c].some
                /\ progress'[c].now = C24_ExitEdge(c)
    ]_vars

\* ------------------------------------------- the pass of the completion

\* The collapse of this dispatch pass turns the runner completed.
C25_TurnsCompleted ==
    /\ pc = "dispatch" /\ pc' = "tick"
    /\ in_main_pass
    /\ is_completed(runner')

\* This dispatch pass is the one after the pass that turned the runner
\* completed.
C25_NextPass ==
    /\ pc = "dispatch" /\ pc' = "tick"
    /\ RunnerEntity \in runner_just_completed

C29_EndedCompletedIsCompleted ==
    [][(/\ pc = "dispatch" /\ pc' = "tick"
        /\ ended # <<>>
        /\ ended_is_completed(ended[1])) =>
            is_completed(runner')
    ]_vars

\* The same for the runners that do not ping-pong and are not skipped.
C29_EndedCompletedIsCompletedWrapAround ==
    [][(/\ pc = "dispatch" /\ pc' = "tick"
        /\ ended # <<>>
        /\ ended_is_completed(ended[1])
        /\ skip = "none"
        /\ ~(runner.repeat.some /\ runner.repeat.style = PingPong)) =>
            is_completed(runner')
    ]_vars

\* ------------------------------------------------- where a runner ends

\* The terminal edge of the runner's direction.
C30_TerminalEdge == IF runner.direction = Forward THEN runner.length ELSE 0

\* C30: for a runner of length L > 0 driven only by tick passes and
\* dispatch passes from its initial state, whenever is_completed() is true
\* the cursor sits on the terminal edge of its direction: elapsed.now = L
\* when the direction is Forward, elapsed.now = 0 when it is Backward.
C30_CompletedOnEdge ==
    is_completed(runner) => runner.elasped.now = C30_TerminalEdge

\* The same for the runners without a repeat.
C30_CompletedOnEdgeNoRepeat ==
    (is_completed(runner) /\ ~runner.repeat.some) =>
        runner.elasped.now = C30_TerminalEdge

\* ------------------------------------------------- claims on two runs

\* C21: the engine is a function of the world and the delta: a frame of a
\* second run that starts from the runner, the spans, the SpanProgress and
\* the Skip marker a frame of the first run started from, and gets the same
\* delta, ends with the same runner and the same SpanProgress, whatever
\* happened before in either run.  The frame compared is one whose tick
\* pass left the runner alone, so that the delta has no part in it.
C21_SameWorldSameFrame ==
    [][(/\ pc = "dispatch" /\ pc' = "tick"
        /\ last # NoCall
        /\ last.op = "second run"
        /\ ~window.ticked
        /\ World = last.world) =>
            /\ runner' = last.runner
            /\ progress' = last.progress
    ]_vars

\* ------------------------------------------- claims on single functions

\* The decision table as the claim words it: the cells that decide are
\* named, every other cell takes the answer of "the other six" or "every
\* other cell".
C23_Table(direction, qp, qn, repeated) ==
    LET cell == <<qp, qn>>
    IN  CASE repeated = NotRepeated ->
               IF cell = <<Inside, Inside>> THEN Current
               ELSE IF direction = Forward
               THEN IF cell \in { <<Before, Inside>>, <<Inside, After>>,
                                  <<Before, After>> }
                    THEN Current ELSE UseNone
               ELSE IF cell \in { <<After, Inside>>, <<Inside, Before>>,
                                  <<After, Before>> }
                    THEN Current ELSE UseNone
          [] repeated = WrapAround /\ direction = Forward ->
               IF cell \in { <<Before, Before>>, <<Inside, Before>> } THEN Max
               ELSE IF cell = <<After, Before>> THEN UseNone
               ELSE Current
          [] repeated = WrapAround /\ direction = Backward ->
               IF cell \in { <<After, After>>, <<Inside, After>> } THEN Min
               ELSE IF cell = <<Before, After>> THEN UseNone
               ELSE Current
          [] repeated = PingPong /\ direction = Forward ->
               IF cell = <<Before, Before>> THEN UseNone ELSE Current
          [] repeated = PingPong /\ direction = Backward ->
               IF cell = <<After, After>> THEN UseNone ELSE Current

\* C23: span_in_range(direction, qp, qn, repeated) is the decision table on
\* all 2 x 3 x 3 x 3 inputs: without a repeat Current for Inside->Inside
\* and for the moves along the direction that enter, leave or cross the
\* span, None otherwise; WrapAround Forward Max for Before->Before and
\* Inside->Before, None for After->Before, Current for the other six, and
\* Backward Min for After->After and Inside->After, None for Before->After,
\* Current for the other six; PingPong None only for Forward Before->Before
\* and Backward After->After, Current for every other cell.
C23_SpanInRange ==
    (pc = "fn" /\ last.op = "output" /\ last.fn = "span_in_range") =>
        last.result = C23_Table(last.args.direction,
                                last.args.previous_quotient,
                                last.args.now_quotient,
                                last.args.repeated)

\* span_in_range answered for a Forward WrapAround runner that left the
\* span over the period boundary: the span is given its Max.
C23_Witness ==
    /\ pc = "fn" /\ last.op = "output" /\ last.fn = "span_in_range"
    /\ last.args = [direction |-> Forward, previous_quotient |-> Inside,
                    now_quotient |-> Before, repeated |-> WrapAround]
    /\ last.result = Max

\* The counter and the count returned that the claim gives for Times.
C27_Times(rep, k) ==
    LET remaining == rep.times - rep.times_repeated
        consumed == IF Abs(k) < remaining THEN Abs(k) ELSE remaining
    IN  IF exhausted(rep)
        THEN [repeat |-> rep, advances |-> 0]
        ELSE [repeat |-> [rep EXCEPT !.times_repeated = @ + consumed],
              advances |-> consumed]

\* C27: advance_counter_by(k) for signed k: Infinitely returns k and keeps
\* no state; InfinitelyCounted adds k to times_repeated and returns k;
\* Times{limit, done} consumes min(|k|, limit - done), adds that to done and
\* returns it, and returns 0 and changes nothing when it is exhausted.
C27_AdvanceCounterBy ==
    (pc = "fn" /\ last.op = "output" /\ last.fn = "advance_counter_by") =>
        LET rep == last.args.repeat
            k == last.args.by
        IN  CASE rep.kind = "Infinitely" ->
                   last.result = [repeat |-> rep, advances |-> k]
              [] rep.kind = "InfinitelyCounted" ->
                   last.result =
                       [repeat |-> InfinitelyCounted(rep.times_repeated + k),
                        advances |-> k]
              [] OTHER -> last.result = C27_Times(rep, k)

\* The same for the calls the claim is right about: a count k >= 0.
C27_AdvanceCounterByForward ==
    (/\ pc = "fn" /\ last.op = "output" /\ last.fn = "advance_counter_by"
     /\ last.args.by >= 0) =>
        C27_AdvanceCounterBy

\* A Times repeat handed a negative count: its counter goes down, below 0
\* at the first call, and the negative count is returned.
C27_NegativeCount ==
    /\ pc = "fn" /\ last.op = "output" /\ last.fn = "advance_counter_by"
    /\ last.args = [repeat |-> Times(2, 0), by |-> -1]
    /\ last.result = [repeat |-> Times(2, -1), advances |-> -1]

\* ------------------------------------------------ the counter of Times

\* C31: for a runner created with Repeat::times(N), N >= 0, after any
\* sequence of raw_ticks, of any direction and repeat style and with deltas
\* of any sign, zero included, the counter satisfies
\* 0 <= times_repeated <= N.
C31_CounterWithinLimit ==
    (runner.repeat.some /\ runner.repeat.repeat.kind = "Times") =>
        /\ 0 <= runner.repeat.repeat.times_repeated
        /\ runner.repeat.repeat.times_repeated <= runner.repeat.repeat.times

\* The upper half of it: the counter never passes its limit.
C31_CounterAtMostLimit ==
    (runner.repeat.some /\ runner.repeat.repeat.kind = "Times") =>
        runner.repeat.repeat.times_repeated <= runner.repeat.repeat.times

\* -------------------------------------------- the previous of a progress

\* The previous of the window this pass consumes, from the start of span c.
C32_WindowPrevious(c) ==
    runner.elasped.previous - time_span[c].min.duration

\* C32: after every dispatch pass, each span that carries SpanProgress for
\* a non-skipped, non-completed runner has progress.previous = (previous of
\* the window just consumed) - span.min, whether the record was attached in
\* this pass or updated in place from an earlier pass, a pass that
\* published a now snapped to Min or Max included.
C32_PreviousOfWindow ==
    [][MainPassStep =>
        \A c \in Children :
            progress'[c].some =>
                progress'[c].previous = C32_WindowPrevious(c)
    ]_vars


\* C32, amended: after a dispatch pass each span that carries SpanProgress
\* for a non-skipped, non-completed runner has progress.previous = (previous
\* of the window just consumed) - span.min when the record was attached in
\* this pass; a record updated in place has as its previous the now it
\* carried before, which is (previous of the window) - span.min when the pass
\* before published the current now, and the snapped now when that pass
\* published a now snapped to Min or Max.
C32_PreviousOfWindowOrShifted ==
    [][MainPassStep =>
        \A c \in Children :
            progress'[c].some =>
                /\ ~progress[c].some =>
                      progress'[c].previous = C32_WindowPrevious(c)
                /\ progress[c].some =>
                      progress'[c].previous = progress[c].now
                /\ (progress[c].some /\ c \notin hist.snapped) =>
                      progress'[c].previous = C32_WindowPrevious(c)
    ]_vars

\* A dispatch updated a record whose now the pass before had snapped: its
\* previous is not that of the window read.
C32_Witness ==
    /\ pc = "tick"
    /\ window.read
    /\ \E c \in Children :
          /\ progress[c].some
          /\ progress[c].previous # window.previous - time_span[c].min.duration

\* ------------------------------------------------- the runner comes to rest

\* No repeat policy, or Repeat::times(N) of either style.
C33_FiniteRepeat ==
    ~runner.repeat.some \/ runner.repeat.repeat.kind = "Times"

\* C33: a non-paused runner with length L > 0, time_scale > 0 and either no
\* repeat policy or Repeat::times(N), N >= 0, of either style, advanced every
\* frame by a tick pass with a positive delta followed by a dispatch pass,
\* eventually reaches is_completed() = true and is never advanced again
\* afterwards.
C33_ComesToRest ==
    /\ (pc # "setup" /\ C33_FiniteRepeat) ~> is_completed(runner)
    /\ [][(pc # "setup" /\ is_completed(runner)) =>
             /\ is_completed(runner')
             /\ runner'.elasped.now = runner.elasped.now
             /\ runner'.direction = runner.direction
             /\ runner'.repeat = runner.repeat
       ]_vars

\* A runner of Repeat::times(N), N >= 1, that was ticked over a boundary has
\* come to rest.
C33_Witness ==
    /\ pc = "tick"
    /\ runner.repeat.some
    /\ runner.repeat.repeat.kind = "Times"
    /\ runner.repeat.repeat.times >= 1
    /\ runner.repeat.repeat.times_repeated = runner.repeat.repeat.times
    /\ window.ticked
    /\ is_completed(runner)

\* ------------------------------------------------ the boundaries counted

\* Only raw_ticks with deltas >= 0 were made, the first of them by a Forward
\* (InfinitelyCounted, WrapAround) runner at now = 0 with times_repeated = 0;
\* hist.sum is the sum T of the deltas.
C34_CountedRun == hist.counted_run /\ hist.n >= 1

\* C34: for a Forward runner with (InfinitelyCounted, WrapAround) starting at
\* now = 0 with times_repeated = 0, after any sequence of raw_ticks with
\* non-negative deltas summing to T, times_repeated = floor(T / L), the
\* number of period boundaries crossed, however the total is split into
\* ticks; and such a runner is never is_completed().
C34_CountsBoundaries ==
    C34_CountedRun =>
        /\ runner.repeat.repeat.times_repeated = hist.sum \div runner.length
        /\ ~is_completed(runner)

\* Three ticks or more, one of them over two boundaries at once and one over
\* none, have counted three periods.
C34_Witness ==
    /\ C34_CountedRun
    /\ hist.n >= 3
    /\ hist.sum >= 3 * runner.length
    /\ hist.sum % runner.length # 0
    /\ runner.repeat.repeat.times_repeated = 3

====
